---- MODULE Spec2Model ----
(***************************************************************************)
(* Historical-average baseline load model (baseline_model.py).             *)
(*                                                                         *)
(* State: the CSV files matched by --pjm-glob, the model parquet file, the *)
(* prediction CSV file, and a record of the last CLI run.                  *)
(* Operations: `train` (load_pjm_glob + train_hist_avg) and `predict`      *)
(* (predict_day), each taken as one atomic CLI invocation. Every run names *)
(* the same --out files, so model and outCsv are one file each.            *)
(*                                                                         *)
(* Numbers are exact rationals [n, d] (d > 0); NaN is [n |-> 0, d |-> 0].  *)
(* Strings that the code edits (zone names, --zones tokens) are sequences  *)
(* of one-character strings, so strip() and upper() are computed.          *)
(* A timestamp is [day, hour, min]; day 0 is a Monday, so dayofweek is     *)
(* day % 7 (pandas: Monday = 0).                                           *)
(*                                                                         *)
(* Weather splitter (weather_ops.py split): the files of --outdir and the  *)
(* progress of one split_weather call, taken one chunk of the input at a   *)
(* time. The two programs share no file; Spec runs the baseline model with *)
(* the splitter idle, SpecSplit runs the splitter with the model idle.     *)
(***************************************************************************)
EXTENDS Integers, Sequences, FiniteSets, TLC

VARIABLES files, model, outCsv, run, outdir, split

vars == <<files, model, outCsv, run, outdir, split>>

\* ------------------------------------------------------------------ bounds

\* Number of file names the glob can match (names 1..MaxFiles, in sorted order).
MaxFiles == 2

\* Number of rows of the weather CSV given to split (1..MaxRows).
MaxRows == 4

\* Rows per chunk of the weather CSV. The code reads chunks of 250_000 rows;
\* the model reads chunks of ChunkSize rows.
ChunkSize == 2

\* ------------------------------------------------------- program constants

\* predict_day enumerates target .. target + 23 hours, hourly.
LastHour == 23

Hours == 0..LastHour

\* split_weather writes one file per year FirstYear..LastYear, and two files
\* for SplitYear: months 1..OctMonth, and month NovMonth.
FirstYear == 2016

LastYear == 2024

SplitYear == 2025

OctMonth == 10

NovMonth == 11

\* ------------------------------------------------------------------ numbers

Abs(x) == IF x < 0 THEN -x ELSE x

RECURSIVE Gcd(_, _)
Gcd(a, b) == IF b = 0 THEN a ELSE Gcd(b, a % b)

\* The rational n/d (d > 0) in lowest terms.
Rat(n, d) == LET g == Gcd(Abs(n), d) IN [n |-> n \div g, d |-> d \div g]

NaN == [n |-> 0, d |-> 0]

IsNaN(x) == x.d = 0

RatAdd(x, y) == Rat(x.n * y.d + y.n * x.d, x.d * y.d)

RatDivInt(x, k) == Rat(x.n, x.d * k)

\* Python 3 round(float): nearest integer, ties to the even one.
Round(x) ==
    LET q == x.n \div x.d
        r == x.n % x.d
    IN  IF 2 * r < x.d THEN q
        ELSE IF 2 * r > x.d THEN q + 1
        ELSE IF q % 2 = 0 THEN q ELSE q + 1

Range(s) == {s[i] : i \in 1..Len(s)}

Min(S) == CHOOSE x \in S : \A y \in S : x <= y

\* Sum of the load_mw column of a frame (a sequence of rows).
RECURSIVE SumLoad(_)
SumLoad(s) ==
    IF s = <<>> THEN Rat(0, 1) ELSE RatAdd(Head(s).load_mw, SumLoad(Tail(s)))

\* Sum of the load_mean column over a set of model entries.
RECURSIVE SumMean(_)
SumMean(S) ==
    IF S = {} THEN Rat(0, 1)
    ELSE LET e == CHOOSE x \in S : TRUE
         IN  RatAdd(e.load_mean, SumMean(S \ {e}))

\* .mean() of the load_mw column of a frame.
MeanOfLoads(s) == RatDivInt(SumLoad(s), Len(s))

\* .mean() of the load_mean column over a set of model entries.
MeanOfMeans(S) == RatDivInt(SumMean(S), Cardinality(S))

\* ------------------------------------------------------------------ strings

Ord(c) ==
    CASE c = " " -> 32
      [] c = "M" -> 77
      [] c = "P" -> 80
      [] c = "S" -> 83
      [] c = "Z" -> 90
      [] c = "m" -> 109
      [] c = "p" -> 112
      [] c = "s" -> 115
      [] c = "z" -> 122

UpperChar(c) ==
    CASE c = "m" -> "M"
      [] c = "p" -> "P"
      [] c = "s" -> "S"
      [] c = "z" -> "Z"
      [] OTHER -> c

\* str.upper()
Upper(s) == [i \in 1..Len(s) |-> UpperChar(s[i])]

\* str.strip(): drop leading and trailing whitespace.
Strip(s) ==
    LET solid == {i \in 1..Len(s) : s[i] # " "}
    IN  IF solid = {} THEN <<>>
        ELSE SubSeq(s, Min(solid), CHOOSE i \in solid : \A j \in solid : j <= i)

\* Python's < on str: lexicographic by code point.
RECURSIVE StrLess(_, _)
StrLess(a, b) ==
    IF b = <<>> THEN FALSE
    ELSE IF a = <<>> THEN TRUE
    ELSE IF Ord(Head(a)) # Ord(Head(b)) THEN Ord(Head(a)) < Ord(Head(b))
    ELSE StrLess(Tail(a), Tail(b))

\* df.columns = [c.lower() for c in df.columns], on the header names in use.
LowerName(c) ==
    CASE c = "Datetime_Beginning_EPT" -> "datetime_beginning_ept"
      [] c = "Zone" -> "zone"
      [] c = "MW" -> "mw"
      [] OTHER -> c

\* --------------------------------------------------------------- timestamps

NaT == [day |-> -1, hour |-> -1, min |-> -1]

\* pd.to_datetime(..., errors="coerce") on one cell.
to_datetime(c) ==
    IF c.ok THEN [day |-> c.day, hour |-> c.hour, min |-> c.min] ELSE NaT

dayofweek(ts) == ts.day % 7

TsLess(a, b) ==
    \/ a.day < b.day
    \/ a.day = b.day /\ a.hour < b.hour
    \/ a.day = b.day /\ a.hour = b.hour /\ a.min < b.min

\* ---------------------------------------------------------- input CSV files

\* A CSV file is [cols, rows]: the header names, and rows of cells aligned with
\* them. A timestamp cell is [ok, day, hour, min] (ok = FALSE: text that
\* pd.to_datetime cannot parse), a zone cell a string (<<>>: an empty cell, read
\* as NaN), a load cell a rational or NaN.

Ts(day, hour, min) == [ok |-> TRUE, day |-> day, hour |-> hour, min |-> min]

BadTs == [ok |-> FALSE, day |-> 0, hour |-> 0, min |-> 0]

MZ == <<"M", "Z">>

PS == <<"P", "S">>

ZZ == <<"Z", "Z">>

\* One full Monday (day 0) of zone MZ, hours 0..23, loads 2.5, 7.5, 12.5, ...
FullMondayCsv ==
    [cols |-> <<"Datetime_Beginning_EPT", "Zone", "MW">>,
     rows |-> [i \in 1..(LastHour + 1) |->
                  <<Ts(0, i - 1, 0), MZ, Rat(10 * (i - 1) + 5, 2)>>]]

\* A single record: zone " mz", Monday 14:00, 5000.4 MW.
SingleCsv ==
    [cols |-> <<"timestamp", "zone", "load">>,
     rows |-> << <<Ts(0, 14, 0), <<" ", "m", "z">>, Rat(50004, 10)>> >>]

\* Tuesdays (days 1, 8) of MZ at hour 14, a Wednesday of PS, and rows that
\* dropna removes; both a "load" and an "mw" column.
SparseCsv ==
    [cols |-> <<"timestamp", "zone", "load", "mw">>,
     rows |-> << <<Ts(1, 14, 0),  MZ, Rat(9999, 1), Rat(50005, 10)>>,
                 <<Ts(8, 14, 0),  MZ, Rat(9999, 1), Rat(50035, 10)>>,
                 <<Ts(1, 14, 30), <<"m", "z", " ">>, Rat(9999, 1), Rat(50005, 10)>>,
                 <<BadTs,         MZ, Rat(7777, 1), Rat(7777, 1)>>,
                 <<Ts(1, 15, 0),  MZ, Rat(8888, 1), NaN>>,
                 <<Ts(1, 16, 0),  <<>>, Rat(1234, 1), Rat(1234, 1)>>,
                 <<Ts(2, 14, 0),  PS, Rat(9999, 1), Rat(30025, 100)>> >>]

\* Zone PS on Monday at hours 0 and 14, MZ on Monday 14:00 again, and a second
\* row of PS on Monday 0:00 with another load.
OtherZoneCsv ==
    [cols |-> <<"datetime", "area", "value">>,
     rows |-> << <<Ts(0, 14, 0), <<"p", "s">>, Rat(400025, 100)>>,
                 <<Ts(0, 0, 0),  PS, Rat(10075, 100)>>,
                 <<Ts(0, 14, 0), MZ, Rat(61, 1)>>,
                 <<Ts(0, 0, 0),  <<"p", "s", " ">>, Rat(999, 1)>> >>]

NoLoadCsv ==
    [cols |-> <<"timestamp", "zone", "temp">>,
     rows |-> << <<Ts(0, 1, 0), MZ, Rat(20, 1)>> >>]

NoZoneCsv ==
    [cols |-> <<"timestamp", "station", "mw">>,
     rows |-> << <<Ts(0, 1, 0), MZ, Rat(20, 1)>> >>]

NoTimestampCsv ==
    [cols |-> <<"date", "zone", "mw">>,
     rows |-> << <<Ts(0, 1, 0), MZ, Rat(20, 1)>> >>]

\* The file contents the environment can put under a matched name.
Palette ==
    <<FullMondayCsv, SingleCsv, SparseCsv, OtherZoneCsv,
      NoLoadCsv, NoZoneCsv, NoTimestampCsv>>

FileNames == 1..MaxFiles

\* files[name] is 0 (no such file) or the index in Palette of its contents.

\* ------------------------------------------------------------ read_std_pjm

TsCands ==
    <<"timestamp", "datetime", "datetime_beginning_ept", "datetime_beginning_utc",
      "datetime_beginning_gmt", "datetime_beginning">>

ZoneCands == <<"zone", "zone_name", "area", "area_name">>

LoadCands == <<"mw", "load_mw", "hrl_load", "load", "value">>

\* for cand in cands: if cand in df.columns: break   ("" when none is found)
FindCol(cands, cols) ==
    LET hits == {k \in 1..Len(cands) : \E i \in 1..Len(cols) : cols[i] = cands[k]}
    IN  IF hits = {} THEN "" ELSE cands[Min(hits)]

ColIndex(cols, name) == Min({i \in 1..Len(cols) : cols[i] = name})

\* A row survives dropna(subset=["timestamp","zone","load_mw"]).
NotNull(r) == r.timestamp # NaT /\ r.zone # <<>> /\ ~IsNaN(r.load_mw)

\* [err, df]: err names the exception read_std_pjm raises ("" if none); df is
\* the returned frame, rows [timestamp, zone, load_mw].
read_std_pjm(csv) ==
    LET cols == [i \in 1..Len(csv.cols) |-> LowerName(csv.cols[i])]
        ts   == FindCol(TsCands, cols)
        zone == FindCol(ZoneCands, cols)
        load == FindCol(LoadCands, cols)
        out  == [i \in 1..Len(csv.rows) |->
                    [timestamp |-> to_datetime(csv.rows[i][ColIndex(cols, ts)]),
                     zone      |-> csv.rows[i][ColIndex(cols, zone)],
                     load_mw   |-> csv.rows[i][ColIndex(cols, load)]]]
        kept == SelectSeq(out, NotNull)
    IN  IF ts = "" THEN [err |-> "No timestamp column", df |-> <<>>]
        ELSE IF zone = "" THEN [err |-> "No zone column", df |-> <<>>]
        ELSE IF load = "" THEN [err |-> "No load column", df |-> <<>>]
        ELSE [err |-> "",
              df  |-> [i \in 1..Len(kept) |->
                          [kept[i] EXCEPT !.zone = Upper(Strip(kept[i].zone))]]]

\* ------------------------------------------------------------ load_pjm_glob

\* sorted(glob.glob(pattern)): the names that exist, ascending.
RECURSIVE SortedNames(_, _)
SortedNames(fs, from) ==
    IF from > MaxFiles THEN <<>>
    ELSE IF fs[from] = 0 THEN SortedNames(fs, from + 1)
    ELSE <<from>> \o SortedNames(fs, from + 1)

RECURSIVE Concat(_)
Concat(frames) ==
    IF frames = <<>> THEN <<>> ELSE Head(frames) \o Concat(Tail(frames))

SameKey(a, b) == a.zone = b.zone /\ a.timestamp = b.timestamp

\* The elements of s at the indices in keep, in order.
RECURSIVE Pick(_, _, _)
Pick(s, i, keep) ==
    IF i > Len(s) THEN <<>>
    ELSE IF i \in keep THEN <<s[i]>> \o Pick(s, i + 1, keep)
    ELSE Pick(s, i + 1, keep)

\* Variant: keep="last".
drop_duplicates_keep_last(s) ==
    Pick(s, 1, {i \in 1..Len(s) :
                   \A j \in (i + 1)..Len(s) : ~SameKey(s[j], s[i])})

\* df.drop_duplicates(subset=["zone","timestamp"]): keep="first".
drop_duplicates(s) ==
    Pick(s, 1, {i \in 1..Len(s) : \A j \in 1..(i - 1) : ~SameKey(s[j], s[i])})

RowLess(a, b) ==
    \/ StrLess(a.zone, b.zone)
    \/ a.zone = b.zone /\ TsLess(a.timestamp, b.timestamp)

RECURSIVE Insert(_, _)
Insert(x, s) ==
    IF s = <<>> THEN <<x>>
    ELSE IF RowLess(x, Head(s)) THEN <<x>> \o s
    ELSE <<Head(s)>> \o Insert(x, Tail(s))

\* df.sort_values(["zone","timestamp"])
RECURSIVE sort_values(_)
sort_values(s) ==
    IF s = <<>> THEN <<>> ELSE Insert(Head(s), sort_values(Tail(s)))

\* Variant: a file that cannot be read is skipped.
ReadAllSkipping(names) ==
    LET reads == [i \in 1..Len(names) |-> read_std_pjm(Palette[files[names[i]]])]
    IN  [err |-> "", frames |-> [i \in 1..Len(names) |-> reads[i].df]]

\* frames = [read_std_pjm(f) for f in files], stopping at the first exception.
ReadAll(names) ==
    LET reads == [i \in 1..Len(names) |-> read_std_pjm(Palette[files[names[i]]])]
        bad   == {i \in 1..Len(names) : reads[i].err # ""}
    IN  IF bad # {} THEN [err |-> reads[Min(bad)].err, frames |-> <<>>]
        ELSE [err |-> "", frames |-> [i \in 1..Len(names) |-> reads[i].df]]

\* [err, df] of load_pjm_glob on the files now on disk.
load_pjm_glob ==
    LET names == SortedNames(files, 1)
        got   == ReadAll(names)
    IN  IF names = <<>> THEN [err |-> "No PJM files", df |-> <<>>]
        ELSE IF got.err # "" THEN [err |-> got.err, df |-> <<>>]
        ELSE [err |-> "",
              df  |-> sort_values(drop_duplicates(Concat(got.frames)))]

\* ---------------------------------------------------------- train_hist_avg

GroupKey(r) ==
    [zone |-> r.zone, day_of_week |-> dayofweek(r.timestamp), hour |-> r.timestamp.hour]

InGroup(df, k) == SelectSeq(df, LAMBDA r : GroupKey(r) = k)

\* Variant: the group's sum divided by the length of the whole frame.
GroupMeanOverFrame(df, k) == RatDivInt(SumLoad(InGroup(df, k)), Len(df))

\* .mean() of load_mw over one group.
GroupMean(df, k) == MeanOfLoads(InGroup(df, k))

\* df.groupby(["zone","day_of_week","hour"])["load_mw"].mean(), as the set of
\* rows [zone, day_of_week, hour, load_mean] written to the parquet file.
train_hist_avg(df) ==
    {[zone |-> k.zone, day_of_week |-> k.day_of_week, hour |-> k.hour,
      load_mean |-> GroupMean(df, k)] : k \in {GroupKey(r) : r \in Range(df)}}

\* ------------------------------------------------------------- predict_day

ZoneHourRows(means, z, hr) == {e \in means : e.zone = z /\ e.hour = hr}

\* The mean of load_mean over one (zone, hour) group.
fallback_zone_hour(means, z, hr) == MeanOfMeans(ZoneHourRows(means, z, hr))

\* z_h = means.groupby(["zone","hour"])["load_mean"].mean(): one row per
\* (zone, hour) that occurs in means.
z_h(means) ==
    [k \in {<<e.zone, e.hour>> : e \in means} |-> fallback_zone_hour(means, k[1], k[2])]

HourRows(means, hr) == {e \in means : e.hour = hr}

\* Variant: h taken from z_h (the mean over zones of the zone-hour means).
RECURSIVE SumZoneHour(_, _, _)
SumZoneHour(means, Z, hr) ==
    IF Z = {} THEN Rat(0, 1)
    ELSE LET z == CHOOSE x \in Z : TRUE
         IN  RatAdd(fallback_zone_hour(means, z, hr), SumZoneHour(means, Z \ {z}, hr))

fallback_hour_from_z_h(means, hr) ==
    RatDivInt(SumZoneHour(means, {e.zone : e \in HourRows(means, hr)}, hr),
              Cardinality({e.zone : e \in HourRows(means, hr)}))

\* The mean of load_mean over one hour group.
fallback_hour(means, hr) == MeanOfMeans(HourRows(means, hr))

\* h = means.groupby(["hour"])["load_mean"].mean(): one row per hour that
\* occurs in means.
h(means) == [hr \in {e.hour : e \in means} |-> fallback_hour(means, hr)]

\* m = means[(zone == z) & (day_of_week == dow) & (hour == hr)]
ExactRows(means, z, dow, hr) ==
    {e \in means : e.zone = z /\ e.day_of_week = dow /\ e.hour = hr}

\* The slot raises IndexError: h[h["hour"]==hr]["fallback_hour"].values[0] on
\* an empty selection, reached when m and m2 are empty. zh and hh are the
\* tables z_h and h.
SlotFails(means, zh, hh, z, dow, hr) ==
    /\ hr \notin DOMAIN hh
    /\ <<z, hr>> \notin DOMAIN zh
    /\ ExactRows(means, z, dow, hr) = {}

\* Variant: the zone-hour mean is tried before the exact entry.
SlotPredZoneHourFirst(means, zh, hh, z, dow, hr) ==
    IF <<z, hr>> \in DOMAIN zh THEN zh[<<z, hr>>] ELSE hh[hr]

\* pred for one slot that does not fail.
SlotPred(means, zh, hh, z, dow, hr) ==
    LET m == ExactRows(means, z, dow, hr)
    IN  IF m # {} THEN (CHOOSE e \in m : TRUE).load_mean
        ELSE IF <<z, hr>> \in DOMAIN zh THEN zh[<<z, hr>>]
        ELSE hh[hr]

\* sorted(means["zone"].unique().tolist())
RECURSIVE SortedZones(_)
SortedZones(Z) ==
    IF Z = {} THEN <<>>
    ELSE LET z == CHOOSE x \in Z : \A y \in Z \ {x} : StrLess(x, y)
         IN  <<z>> \o SortedZones(Z \ {z})

DefaultZones(means) == SortedZones({e.zone : e \in means})

\* The zones argument: None, or a list of zone names.
NoZones == [given |-> FALSE, list |-> <<>>]

ZoneList(l) == [given |-> TRUE, list |-> l]

\* The loops of predict_day over the zone list zs and the 24 hours, with the
\* tables zh = z_h and hh = h: [err, rows], the rows appended, in order, or the
\* IndexError of the first slot with no tier.
PredictLoop(date, means, zs, zh, hh) ==
    LET dow  == dayofweek([day |-> date, hour |-> 0, min |-> 0])
        n    == LastHour + 1
    IN  IF \E i \in 1..Len(zs) : \E hr \in Hours : SlotFails(means, zh, hh, zs[i], dow, hr)
        THEN [err |-> "IndexError", rows |-> <<>>]
        ELSE [err |-> "",
              rows |-> [k \in 1..(Len(zs) * n) |->
                          [date |-> date,
                           zone |-> zs[((k - 1) \div n) + 1],
                           timestamp |-> [day |-> date, hour |-> (k - 1) % n, min |-> 0],
                           pred_load_mw |->
                               Round(SlotPred(means, zh, hh, zs[((k - 1) \div n) + 1],
                                              dow, (k - 1) % n))]]]

\* predict_day on the model rows means; date is the day number of
\* pd.Timestamp(date_str).normalize(), zones is None or a list.
predict_day(date, means, zones) ==
    PredictLoop(date, means,
                IF ~zones.given THEN DefaultZones(means) ELSE zones.list,
                z_h(means), h(means))

\* Variant: to_csv(..., mode="a"), the frame is appended to the file.
to_csv_append(old, rows) == old \o rows

\* preds.to_csv(out_csv, index=False): the file is replaced by the frame.
to_csv(old, rows) == rows

\* -------------------------------------------------------------------- main

\* args.zones is omitted (given = FALSE) or a string, held as the list of its
\* comma-separated pieces; "" splits into the single piece <<>>.
\*   zones = None
\*   if args.zones: zones = [z.strip() for z in args.zones.split(",") if z.strip()]
ParseZones(arg) ==
    IF ~arg.given \/ arg.list = << <<>> >> THEN NoZones
    ELSE LET stripped == [i \in 1..Len(arg.list) |-> Strip(arg.list[i])]
         IN  ZoneList(SelectSeq(stripped, LAMBDA z : z # <<>>))

\* --zones values tried: omitted, "MZ,MZ", "ZZ,, MZ".
ZoneArgs ==
    {NoZones,
     ZoneList(<<MZ, MZ>>),
     ZoneList(<<ZZ, <<>>, <<" ", "M", "Z">> >>)}

\* --date values tried: a Monday and a Tuesday.
Dates == {7, 8}

\* ------------------------------------------------------------ split_weather

\* A weather CSV is [tscol, stamps]: the header name of its time column and the
\* cells of that column, one per row; the other columns are carried through
\* unchanged and are not modelled. A time cell is [ok, year, month]
\* (ok = FALSE: text that pd.to_datetime cannot parse).

WTs(year, month) == [ok |-> TRUE, year |-> year, month |-> month]

WBadTs == [ok |-> FALSE, year |-> 0, month |-> 0]

\* The time cells tried: the first and the last yearly file, both sides of
\* each month boundary of SplitYear, a November before FirstYear, and
\* unparsable text.
StampKinds ==
    {WTs(FirstYear, 1), WTs(LastYear, 12), WTs(SplitYear, OctMonth),
     WTs(SplitYear, NovMonth), WTs(SplitYear, 12), WTs(FirstYear - 1, NovMonth),
     WBadTs}

\* The header names tried for the time column.
TimeCols == {"timestamp", "Obs_Time", "date"}

WeatherCsvs ==
    UNION {[tscol : TimeCols, stamps : [1..n -> StampKinds]] : n \in 1..MaxRows}

\* "time" in c.lower(), on the header names in use.
HasTime(c) ==
    CASE c = "timestamp" -> TRUE
      [] c = "Obs_Time" -> TRUE
      [] OTHER -> FALSE

\* The name of the column to parse ("" when the code raises ValueError).
ts_col(csv) ==
    IF csv.tscol = "timestamp" THEN "timestamp"
    ELSE IF HasTime(csv.tscol) THEN csv.tscol
    ELSE ""

WNaT == [year |-> -1, month |-> -1]

\* pd.to_datetime(..., errors="coerce") on one cell, then .dt.year, .dt.month.
weather_to_datetime(c) ==
    IF c.ok THEN [year |-> c.year, month |-> c.month] ELSE WNaT

\* targets: year -> path, for range(2016, 2025).
YearPaths ==
    <<"weather_2016.csv", "weather_2017.csv", "weather_2018.csv",
      "weather_2019.csv", "weather_2020.csv", "weather_2021.csv",
      "weather_2022.csv", "weather_2023.csv", "weather_2024.csv">>

targets(year) == YearPaths[year - FirstYear + 1]

targets_2025_jan_oct == "weather_2025_jan_oct.csv"

targets_2025_nov == "weather_2025_nov.csv"

all_paths == YearPaths \o <<targets_2025_jan_oct, targets_2025_nov>>

Paths == {all_paths[k] : k \in 1..Len(all_paths)}

\* The mask under which a parsed row goes to path p.
Mask(p, ts) ==
    IF p = targets_2025_jan_oct
    THEN ts.year = SplitYear /\ ts.month >= 1 /\ ts.month <= OctMonth
    ELSE IF p = targets_2025_nov
    THEN ts.year = SplitYear /\ ts.month = NovMonth
    ELSE \E year \in FirstYear..LastYear : targets(year) = p /\ ts.year = year

\* A file is [exists, lines]; a line is the header, or the row of the input
\* with the given number (0: a row left by an earlier run).
HeaderLine == [header |-> TRUE, row |-> 0]

RowLine(i) == [header |-> FALSE, row |-> i]

NoFile == [exists |-> FALSE, lines |-> <<>>]

StaleFile == [exists |-> TRUE, lines |-> <<HeaderLine, RowLine(0)>>]

\* --outdir before the run: two files of an earlier split are there.
StaleDir ==
    [p \in Paths |->
        IF p \in {targets(FirstYear), targets_2025_nov} THEN StaleFile ELSE NoFile]

\* The rows lo..hi of the input that dropna keeps and the mask of p selects,
\* in input order.
Selected(csv, lo, hi, p) ==
    LET idx == [k \in 1..(hi - lo + 1) |-> lo + k - 1]
        Keep(i) == LET ts == weather_to_datetime(csv.stamps[i])
                   IN  ts # WNaT /\ Mask(p, ts)
    IN  SelectSeq(idx, Keep)

\* Variant: mode="a" whether or not the header was written.
chunk_to_csv_append(old, written, sel) ==
    [exists |-> TRUE,
     lines  |-> old.lines \o (IF written THEN <<>> ELSE <<HeaderLine>>)
                \o [k \in 1..Len(sel) |-> RowLine(sel[k])]]

\* .to_csv(outpath, mode="a" if written else "w", header=not written)
chunk_to_csv(old, written, sel) ==
    LET mode == IF written THEN "a" ELSE "w"
    IN  [exists |-> TRUE,
         lines  |-> (IF mode = "a" THEN old.lines ELSE <<>>)
                    \o (IF written THEN <<>> ELSE <<HeaderLine>>)
                    \o [k \in 1..Len(sel) |-> RowLine(sel[k])]]

NoWeatherCsv == [tscol |-> "", stamps |-> <<>>]

NoSplit ==
    [pc |-> "idle", in_csv |-> NoWeatherCsv, overwrite |-> FALSE,
     header_written |-> [p \in Paths |-> FALSE], done |-> 0, total |-> 0]

\* ------------------------------------------------------- states and actions

NoModel == [exists |-> FALSE, rows |-> {}]

NoCsv == [exists |-> FALSE, rows |-> <<>>]

NoRun ==
    [cmd |-> "none", status |-> "", date |-> 0, zones |-> NoZones, df |-> <<>>,
     again |-> FALSE]

Init ==
    /\ files = [name \in FileNames |-> 0]
    /\ model = NoModel
    /\ outCsv = NoCsv
    /\ run = NoRun
    /\ outdir = StaleDir
    /\ split = NoSplit

\* The environment stores a CSV file under a name the glob matches.
PutCsv(name, p) ==
    /\ files[name] = 0
    /\ files' = [files EXCEPT ![name] = p]
    /\ UNCHANGED <<model, outCsv, run, outdir, split>>

\* python baseline_model.py train --pjm-glob G --out M
Train ==
    LET got == load_pjm_glob
    IN  /\ run' = [NoRun EXCEPT !.cmd = "train",
                                !.status = IF got.err = "" THEN "ok" ELSE got.err,
                                !.df = got.df]
        /\ model' = IF got.err = ""
                    THEN [exists |-> TRUE, rows |-> train_hist_avg(got.df)]
                    ELSE model
        /\ UNCHANGED <<files, outCsv, outdir, split>>

\* python baseline_model.py predict --date D --model M --zones Z --out O
Predict(date, arg) ==
    LET res == IF model.exists
               THEN predict_day(date, model.rows, ParseZones(arg))
               ELSE [err |-> "FileNotFoundError", rows |-> <<>>]
    IN  /\ run' = [NoRun EXCEPT !.cmd = "predict",
                                !.status = IF res.err = "" THEN "ok" ELSE res.err,
                                !.date = date,
                                !.zones = arg,
                                !.again = (run.cmd = "predict" /\ run.date = date
                                           /\ run.zones = arg)]
        /\ outCsv' = IF res.err = ""
                     THEN [exists |-> TRUE, rows |-> to_csv(outCsv.rows, res.rows)]
                     ELSE outCsv
        /\ UNCHANGED <<files, model, outdir, split>>

Next ==
    \/ \E name \in FileNames : \E p \in 1..Len(Palette) : PutCsv(name, p)
    \/ Train
    \/ \E date \in Dates : \E arg \in ZoneArgs : Predict(date, arg)

Spec == Init /\ [][Next]_vars

\* python weather_ops.py split --in C --outdir D [--overwrite], up to the
\* first chunk: the files of an earlier run are removed under --overwrite.
StartSplit(csv, overwrite) ==
    /\ split.pc = "idle"
    /\ outdir' = IF overwrite THEN [p \in Paths |-> NoFile] ELSE outdir
    /\ split' = [NoSplit EXCEPT !.pc = "running", !.in_csv = csv,
                                !.overwrite = overwrite]
    /\ UNCHANGED <<files, model, outCsv, run>>

\* One pass of the chunk loop, on the next ChunkSize rows of the input; after
\* the last chunk the call returns.
SplitChunk ==
    /\ split.pc = "running"
    /\ LET csv == split.in_csv
           lo  == split.done + 1
           hi  == Min({Len(csv.stamps), split.done + ChunkSize})
           hw  == split.header_written
           Sel(p) == Selected(csv, lo, hi, p)
           kept == {i \in lo..hi : weather_to_datetime(csv.stamps[i]) # WNaT}
       IN  IF ts_col(csv) = ""
           THEN /\ split' = [split EXCEPT !.pc = "ValueError"]
                /\ outdir' = outdir
           ELSE /\ outdir' = [p \in Paths |->
                                 IF Sel(p) = <<>> THEN outdir[p]
                                 ELSE chunk_to_csv(outdir[p], hw[p], Sel(p))]
                /\ split' = [split EXCEPT
                                !.header_written =
                                    [p \in Paths |-> hw[p] \/ Sel(p) # <<>>],
                                !.done = hi,
                                !.total = split.total + Cardinality(kept),
                                !.pc = IF hi = Len(csv.stamps) THEN "done"
                                       ELSE "running"]
    /\ UNCHANGED <<files, model, outCsv, run>>

NextSplit ==
    \/ /\ split.pc = "idle"
       /\ \E csv \in WeatherCsvs : \E overwrite \in BOOLEAN :
             StartSplit(csv, overwrite)
    \/ SplitChunk

SpecSplit == Init /\ [][NextSplit]_vars

\* ------------------------------------------------------------------ claims
\* While run.cmd = "predict", model is the file that run read: only Train
\* writes the model, and Train replaces run. While run.status = "ok" as well,
\* outCsv is the file that run wrote.

PredictRan == run.cmd = "predict" /\ model.exists

PredictOk == PredictRan /\ run.status = "ok"

\* The zones the last predict run looped over.
RunZones ==
    LET z == ParseZones(run.zones)
    IN  IF z.given THEN z.list ELSE DefaultZones(model.rows)

RunDow == dayofweek([day |-> run.date, hour |-> 0, min |-> 0])

\* The output rows for zone z and hour hr of the run's date.
OutRows(z, hr) ==
    {i \in 1..Len(outCsv.rows) :
        /\ outCsv.rows[i].zone = z
        /\ outCsv.rows[i].timestamp = [day |-> run.date, hour |-> hr, min |-> 0]}

\* x is the arithmetic mean of the load_mean values of the entries in S.
IsMeanOf(x, S) ==
    /\ S # {}
    /\ ~IsNaN(x)
    /\ x.n * SumMean(S).d * Cardinality(S) = SumMean(S).n * x.d

\* C1: for a non-empty model, every requested zone and every hour for which the
\* model has some entry of that zone (on any day of week), the predict run emits
\* a row for that zone and hour with an integer pred_load_mw.
C1_EverySlotPredicted ==
    (PredictRan /\ model.rows # {}) =>
        \A i \in 1..Len(RunZones) : \A hr \in Hours :
            ZoneHourRows(model.rows, RunZones[i], hr) # {} =>
                /\ run.status = "ok"
                /\ \E k \in OutRows(RunZones[i], hr) :
                      outCsv.rows[k].pred_load_mw \in Int

\* C2: with a non-empty model no requested slot lacks all three tiers, the run
\* does not fail, and every zone of the model that is requested gets a row for
\* each of the 24 hours.
C2_TotalCoverage ==
    (PredictRan /\ model.rows # {}) =>
        /\ \A i \in 1..Len(RunZones) : \A hr \in Hours :
              \/ ExactRows(model.rows, RunZones[i], RunDow, hr) # {}
              \/ ZoneHourRows(model.rows, RunZones[i], hr) # {}
              \/ HourRows(model.rows, hr) # {}
        /\ run.status = "ok"
        /\ \A i \in 1..Len(RunZones) : \A hr \in Hours :
              (\E e \in model.rows : e.zone = RunZones[i]) =>
                  OutRows(RunZones[i], hr) # {}

C4_ZoneHourFallback ==
    (PredictRan /\ model.rows # {}) =>
        \A i \in 1..Len(RunZones) : \A hr \in Hours :
            (/\ ExactRows(model.rows, RunZones[i], RunDow, hr) = {}
             /\ ZoneHourRows(model.rows, RunZones[i], hr) # {})
            => /\ run.status = "ok"
               /\ \E k \in OutRows(RunZones[i], hr) : \E x \in {outCsv.rows[k].pred_load_mw} :
                     \E m \in {fallback_zone_hour(model.rows, RunZones[i], hr)} :
                        /\ IsMeanOf(m, ZoneHourRows(model.rows, RunZones[i], hr))
                        /\ x = Round(m)

SingleRecordModel ==
    /\ load_pjm_glob.err = ""
    /\ Len(load_pjm_glob.df) = 1
    /\ model.exists
    /\ model.rows = train_hist_avg(load_pjm_glob.df)

\* C6: after training on a single record (z, t, L), a predict run for a date
\* with the day of week of t and for zone z emits, in the row for the hour of t,
\* pred_load_mw = L rounded.
C6_RoundTrip ==
    (PredictRan /\ SingleRecordModel) =>
        LET r == load_pjm_glob.df[1]
        IN  (/\ RunDow = dayofweek(r.timestamp)
             /\ \E i \in 1..Len(RunZones) : RunZones[i] = r.zone)
            => /\ run.status = "ok"
               /\ \E k \in OutRows(r.zone, r.timestamp.hour) :
                     outCsv.rows[k].pred_load_mw = Round(r.load_mw)

C8_OneRowPerZoneHour ==
    PredictOk =>
        /\ Len(outCsv.rows) = (LastHour + 1) * Cardinality(Range(RunZones))
        /\ \A z \in Range(RunZones) : \A hr \in Hours :
              Cardinality(OutRows(z, hr)) = 1
        /\ \A i \in 1..Len(outCsv.rows) : \A j \in 1..Len(outCsv.rows) :
              (/\ outCsv.rows[i].zone = outCsv.rows[j].zone
               /\ outCsv.rows[i].timestamp = outCsv.rows[j].timestamp) => i = j

\* The records of frame df that fall in the group of model entry e.
RecordsOf(df, e) ==
    {i \in 1..Len(df) :
        /\ df[i].zone = e.zone
        /\ dayofweek(df[i].timestamp) = e.day_of_week
        /\ df[i].timestamp.hour = e.hour}

\* C9: the model written by a completed train run has exactly one entry for each
\* (zone, day_of_week, hour) that occurs among the records and none for another
\* key, and each load_mean is the mean of load_mw over the records of its key.
C9_TrainerGroups ==
    (run.cmd = "train" /\ run.status = "ok") =>
        /\ model.exists
        /\ \A i \in 1..Len(run.df) : \E e \in model.rows : i \in RecordsOf(run.df, e)
        /\ \A e \in model.rows :
              /\ RecordsOf(run.df, e) # {}
              /\ \A f \in model.rows :
                    (f.zone = e.zone /\ f.day_of_week = e.day_of_week /\ f.hour = e.hour)
                    => f = e
              /\ LET sum == SumLoad(Pick(run.df, 1, RecordsOf(run.df, e)))
                 IN  /\ ~IsNaN(e.load_mean)
                     /\ e.load_mean.n * sum.d * Cardinality(RecordsOf(run.df, e))
                           = sum.n * e.load_mean.d

\* A completed train run wrote a model with a group of several records whose
\* loads differ, next to other groups.
C9_Witness ==
    /\ run.cmd = "train" /\ run.status = "ok"
    /\ \E e \in model.rows :
          /\ Cardinality(RecordsOf(run.df, e)) >= 3
          /\ \E i \in RecordsOf(run.df, e) : run.df[i].load_mw # e.load_mean
    /\ Cardinality(model.rows) > LastHour + 1

\* Some file on disk lacks a timestamp, zone or load column.
SomeFileLacksColumn ==
    \E name \in FileNames :
        files[name] # 0 /\ read_std_pjm(Palette[files[name]]).err # ""

\* C10: a train run over files of which one lacks a required column ends with
\* an error and leaves the model file as it was (absent, or its old contents).
C10_NoPartialTraining ==
    [][(Train /\ SomeFileLacksColumn) =>
          /\ run'.status # "ok"
          /\ model' = model]_vars

\* A train run failed on a file without a required column that sorts after a
\* valid file, with a model file already on disk.
C10_Witness ==
    /\ run.cmd = "train"
    /\ run.status \in {"No timestamp column", "No zone column", "No load column"}
    /\ model.exists /\ model.rows # {}
    /\ \E a \in FileNames : \E b \in FileNames :
          /\ a < b
          /\ files[a] # 0 /\ read_std_pjm(Palette[files[a]]).err = ""
          /\ files[b] # 0 /\ read_std_pjm(Palette[files[b]]).err # ""

\* The records read_std_pjm returns for the files now on disk, in sorted-file
\* then row order (empty for a file that cannot be read).
RecordsRead ==
    LET names == SortedNames(files, 1)
    IN  Concat([i \in 1..Len(names) |-> read_std_pjm(Palette[files[names[i]]]).df])

\* The index of the first record of s with the key of record r (0 if none).
FirstWithKey(s, r) ==
    LET same == {i \in 1..Len(s) : SameKey(s[i], r)}
    IN  IF same = {} THEN 0 ELSE Min(same)

\* C11: in the frame a completed train run hands to the trainer no two records
\* share (zone, timestamp), every (zone, timestamp) read from the files has a
\* record in it, and each record is the first one with its key in sorted-file
\* then row order.
C11_DedupKeepsFirst ==
    [][(Train /\ run'.status = "ok") =>
          LET read == RecordsRead
              df   == run'.df
          IN  /\ \A i \in 1..Len(df) : \A j \in 1..Len(df) :
                     SameKey(df[i], df[j]) => i = j
              /\ \A k \in 1..Len(read) : \E i \in 1..Len(df) :
                     SameKey(df[i], read[k])
              /\ \A i \in 1..Len(df) :
                     /\ FirstWithKey(read, df[i]) # 0
                     /\ df[i] = read[FirstWithKey(read, df[i])]]_vars

\* A completed train run over the files still on disk read one
\* (zone, timestamp) from two files and another twice from one file, each
\* time with different loads.
C11_Witness ==
    /\ run.cmd = "train" /\ run.status = "ok"
    /\ run.df = load_pjm_glob.df
    /\ Len(RecordsRead) > Len(run.df)
    /\ \E a \in FileNames : \E b \in FileNames :
          /\ a < b /\ files[a] # 0 /\ files[b] # 0
          /\ \E r \in Range(read_std_pjm(Palette[files[a]]).df) :
             \E q \in Range(read_std_pjm(Palette[files[b]]).df) :
                SameKey(r, q) /\ r.load_mw # q.load_mw /\ r \in Range(run.df)
    /\ \E a \in FileNames :
          /\ files[a] # 0
          /\ LET f == read_std_pjm(Palette[files[a]]).df
             IN  \E i \in 1..Len(f) : \E j \in 1..Len(f) :
                    /\ i < j /\ SameKey(f[i], f[j])
                    /\ f[i].load_mw # f[j].load_mw
                    /\ FirstWithKey(RecordsRead, f[i]) # 0
                    /\ RecordsRead[FirstWithKey(RecordsRead, f[i])] \in Range(run.df)

\* The file a time cell belongs in: weather_<year>.csv for a year
\* FirstYear..LastYear, the two SplitYear files for months 1..OctMonth and
\* month NovMonth, and "" (no file) for every other date or unparsable text.
FileFor(c) ==
    IF ~c.ok THEN ""
    ELSE IF c.year >= FirstYear /\ c.year <= LastYear
    THEN all_paths[c.year - FirstYear + 1]
    ELSE IF c.year = SplitYear /\ c.month \in 1..OctMonth
    THEN "weather_2025_jan_oct.csv"
    ELSE IF c.year = SplitYear /\ c.month = NovMonth
    THEN "weather_2025_nov.csv"
    ELSE ""

\* The rows read so far that belong in file p.
RowsFor(p) == {i \in 1..split.done : FileFor(split.in_csv.stamps[i]) = p}

\* The files holding row i of the input.
FilesWith(i) ==
    {p \in Paths : \E k \in 1..Len(outdir[p].lines) : outdir[p].lines[k] = RowLine(i)}

\* C12: after every chunk of a split run, each row read so far is in its own
\* file and no other (in no file for other dates and unparsable text); a file
\* is written in the run exactly when a row read so far belongs in it, and
\* then it is one header line followed by its rows, all of them, once each, in
\* input order.
C12_SplitRouting ==
    split.pc \in {"running", "done"} =>
        /\ \A i \in 1..split.done :
              LET p == FileFor(split.in_csv.stamps[i])
              IN  FilesWith(i) = IF p = "" THEN {} ELSE {p}
        /\ \A p \in Paths :
              LET f == outdir[p]
              IN  /\ split.header_written[p] <=> RowsFor(p) # {}
                  /\ split.header_written[p] =>
                        /\ f.exists
                        /\ Len(f.lines) = 1 + Cardinality(RowsFor(p))
                        /\ f.lines[1] = HeaderLine
                        /\ \A k \in 2..Len(f.lines) :
                              /\ ~f.lines[k].header
                              /\ f.lines[k].row \in RowsFor(p)
                              /\ k > 2 => f.lines[k - 1].row < f.lines[k].row

\* A finished split run without --overwrite wrote rows of two chunks to a file
\* an earlier run had left, left the other such file alone, and dropped a
\* December row of SplitYear and a row with an unparsable time.
C12_Witness ==
    /\ split.pc = "done" /\ ~split.overwrite
    /\ split.in_csv.tscol = "Obs_Time"
    /\ LET f == outdir[targets(FirstYear)]
       IN  /\ split.header_written[targets(FirstYear)]
           /\ Len(f.lines) = 3
           /\ f.lines[2].row <= ChunkSize /\ f.lines[3].row > ChunkSize
    /\ ~split.header_written[targets_2025_nov]
    /\ outdir[targets_2025_nov] = StaleFile
    /\ \E i \in 1..split.done : split.in_csv.stamps[i] = WTs(SplitYear, 12)
    /\ \E i \in 1..split.done : split.in_csv.stamps[i] = WBadTs
    /\ split.total < split.done

====
